---- MODULE Spec2Model ----
(***************************************************************************)
(* Model of the scraptor DXGI capture engine: the frame-acquisition state  *)
(* machine of DxgiDisplayCapturer, the frame views it hands out            *)
(* (DxgiFrame / Dx11FrameData), the change-rectangle extractor and the     *)
(* adapter/output enumerator DxgiDisplays.  The DXGI backend is the        *)
(* environment: every status it can return is a nondeterministic input.    *)
(***************************************************************************)
EXTENDS Integers, Sequences, FiniteSets, TLC

(***************************************************************************)
(* Bounds of the exploration.                                              *)
(***************************************************************************)
MaxCalls == 3
MaxAsBytes == 2
MaxAdapters == 3
MaxOutputs == 2
MaxNext == 5
MaxFaults == 2
MaxCount == 18

(***************************************************************************)
(* Backend status codes (HRESULT), kept symbolic.                          *)
(***************************************************************************)
S_OK == "S_OK"
DXGI_ERROR_WAIT_TIMEOUT == "DXGI_ERROR_WAIT_TIMEOUT"
DXGI_ERROR_ACCESS_LOST == "DXGI_ERROR_ACCESS_LOST"
DXGI_ERROR_INVALID_CALL == "DXGI_ERROR_INVALID_CALL"
DXGI_ERROR_NOT_FOUND == "DXGI_ERROR_NOT_FOUND"
DXGI_ERROR_MORE_DATA == "DXGI_ERROR_MORE_DATA"
E_NOINTERFACE == "E_NOINTERFACE"
E_FAIL == "E_FAIL"

\* HRESULT::ok(): only a failure status becomes an Err
is_ok(hr) == hr = S_OK

\* statuses AcquireNextFrame may return
AcquireStatuses ==
  {S_OK, DXGI_ERROR_WAIT_TIMEOUT, DXGI_ERROR_ACCESS_LOST, DXGI_ERROR_INVALID_CALL}

\* statuses of the calls whose failure is a plain error
CallStatuses == {S_OK, DXGI_ERROR_ACCESS_LOST}

(***************************************************************************)
(* Unsigned machine integers as little-endian base-256 digit tuples, so    *)
(* that 32-bit and 64-bit values keep their width.                         *)
(***************************************************************************)
Byte == 256

\* zero-extend (or truncate) a digit tuple to n digits: `as u32`, `as usize`
Resize(a, n) == [i \in 1..n |-> IF i <= Len(a) THEN a[i] ELSE 0]

U32(a) == Resize(a, 4)
USize(a) == Resize(a, 8)

\* column sum of the schoolbook product: digits i+j-1 = k
RECURSIVE ColSum(_, _, _, _)
ColSum(a, b, k, i) ==
  IF i > Len(a) THEN 0
  ELSE (IF k - i + 1 >= 1 /\ k - i + 1 <= Len(b) THEN a[i] * b[k - i + 1] ELSE 0)
       + ColSum(a, b, k, i + 1)

\* digits k.. of the product, given the carry into column k
RECURSIVE MulFrom(_, _, _, _)
MulFrom(a, b, k, carry) ==
  IF k > Len(a) + Len(b) THEN <<>>
  ELSE LET s == ColSum(a, b, k, 1) + carry
       IN  <<s % Byte>> \o MulFrom(a, b, k + 1, s \div Byte)

\* the exact product of two digit tuples (Len(a) + Len(b) digits)
MathMul(a, b) == MulFrom(a, b, 1, 0)

\* u32 * u32 overflows when the exact product needs more than 4 digits
MulOverflows32(a, b) == LET m == MathMul(a, b) IN \E k \in 5..8 : m[k] # 0

\* wrapping u32 multiplication (release profile): the product modulo 2^32
WrappingMul32(a, b) == U32(MathMul(a, b))

(***************************************************************************)
(* Input values.                                                           *)
(***************************************************************************)
\* desc.ModeDesc.Height: 2, 1080, 65536, 2^32 - 1
Heights == {<<2, 0, 0, 0>>, <<56, 4, 0, 0>>, <<0, 0, 1, 0>>, <<255, 255, 255, 255>>}

\* rect.Pitch as reported by MapDesktopSurface: 4, 7680, 65536
Pitches == {<<4, 0, 0, 0>>, <<0, 30, 0, 0>>, <<0, 0, 1, 0>>}

\* build profiles: overflow checks on (debug) or off (release)
Profiles == {"debug", "release"}

Zero32 == <<0, 0, 0, 0>>

NoFrame == [kind |-> "NoFrame"]
NoResult == [kind |-> "NoResult"]

VARIABLES
  desc,       \* DXGI_OUTDUPL_DESC: DesktopImageInSystemMemory, ModeDesc.Height
  rect,       \* DXGI_MAPPED_RECT.Pitch, the scratch mapped rectangle
  has_frame,  \* DxgiDisplayCapturer.has_frame
  profile,    \* build profile of the binary
  log,        \* backend call log of the duplication session
  held,       \* backend: frames acquired and not yet released
  result,     \* what the last get_frame call returned
  frame,      \* the DxgiFrame the caller holds, or NoFrame
  calls,      \* number of get_frame calls made
  gpu,        \* backend call counters of the GPU readback
  bytes,      \* what the last as_bytes call returned
  pc,         \* "run" or "panicked"
  topo,       \* backend topology: topo[a + 1] = number of outputs of adapter a
  displays,   \* DxgiDisplays: adapter, adapter_idx, display_idx
  items,      \* what the next() calls so far returned, in order
  elog,       \* backend calls of the last next() call
  depth,      \* nesting of next_display reached by the last next() call
  faults,     \* backend answers so far that the topology does not explain
  rects,      \* the last dirty() or moved() call: queries, buffer, result
  resource,   \* whether the last acquire handed out a desktop resource
  ddesc,      \* DXGI_OUTPUT_DESC.DesktopCoordinates of the last display yielded
  display,    \* DxgiDisplay: its capturer slot and what frame() did so far
  arrival,    \* polling: number of acquires that time out before a frame is pending
  wait,       \* the timeout of the last get_frame call: the caller's, and the one passed on
  twin        \* a clone of the capturer, or None while it was never cloned

capturerVars == <<desc, rect, has_frame, profile, log, held, result, frame, calls, gpu, bytes, pc, resource>>
displaysVars == <<topo, displays, items, elog, depth, faults, ddesc>>
ownerVars == <<display, arrival, wait, twin>>
vars == <<capturerVars, displaysVars, rects, ownerVars>>

(***************************************************************************)
(* The backend's view of the duplication session.                          *)
(***************************************************************************)
Call(name, hr) == [call |-> name, hr |-> hr]

\* frames the backend holds for the session after one more call: a
\* successful AcquireNextFrame adds one, ReleaseFrame ends the hold (a
\* failing ReleaseFrame means the frame was already gone or the session lost)
HeldAfterCall(h, c) ==
  IF c.call = "AcquireNextFrame" /\ is_ok(c.hr) THEN h + 1
  ELSE IF c.call = "ReleaseFrame" THEN 0
  ELSE h

RECURSIVE HeldAfter(_, _)
HeldAfter(h, cs) ==
  IF cs = <<>> THEN h ELSE HeldAfter(HeldAfterCall(h, Head(cs)), Tail(cs))

(***************************************************************************)
(* DxgiDisplayCapturer::new, the construction state.                       *)
(***************************************************************************)
CapturerNew(inMemory, height) ==
  [desc |-> [DesktopImageInSystemMemory |-> inMemory, Height |-> height],
   rect |-> Zero32,
   has_frame |-> FALSE]

(***************************************************************************)
(* DxgiDisplayCapturer::get_frame.  `in` holds what the backend answers to *)
(* each call the function may make:                                        *)
(*   unmapHr, releaseHr, acquireHr, resource (present or not), mapHr,      *)
(*   pitch, castHr.                                                        *)
(***************************************************************************)
\* a release that unmaps the surface but forgets to release the frame
ReleasePrevious_UnmapOnly(hf, inMemory, in) ==
  IF hf /\ inMemory THEN <<Call("UnMapDesktopSurface", in.unmapHr)>> ELSE <<>>

\* a release that is issued whether or not a frame is held
ReleasePrevious_Unconditional(hf, inMemory, in) ==
  (IF inMemory THEN <<Call("UnMapDesktopSurface", in.unmapHr)>> ELSE <<>>)
  \o <<Call("ReleaseFrame", in.releaseHr)>>

\* the release of the previous frame, errors ignored
ReleasePrevious(hf, inMemory, in) ==
  IF hf
  THEN (IF inMemory THEN <<Call("UnMapDesktopSurface", in.unmapHr)>> ELSE <<>>)
       \o <<Call("ReleaseFrame", in.releaseHr)>>
  ELSE <<>>

\* a release whose first failing status is returned to the caller
Discarded_Propagate(cs) ==
  IF \E i \in 1..Len(cs) : ~is_ok(cs[i].hr)
  THEN cs[CHOOSE i \in 1..Len(cs) :
            ~is_ok(cs[i].hr) /\ \A j \in 1..(i - 1) : is_ok(cs[j].hr)].hr
  ELSE S_OK

\* `let _ =` on the unmap and on the release: their status is dropped
Discarded(cs) == S_OK

\* a match that takes every failed acquire for a timeout
AcquireOutcome_AllWouldBlock(hr) ==
  IF ~is_ok(hr) THEN [kind |-> "WouldBlock", hr |-> hr]
  ELSE [kind |-> "Acquired", hr |-> hr]

\* the match on the status of AcquireNextFrame
AcquireOutcome(hr) ==
  IF hr = DXGI_ERROR_WAIT_TIMEOUT THEN [kind |-> "WouldBlock", hr |-> hr]
  ELSE IF ~is_ok(hr) THEN [kind |-> "Unexpected", hr |-> hr]
  ELSE [kind |-> "Acquired", hr |-> hr]

\* has_frame never set, and has_frame set before the status is looked at
HasFrameAfterAcquire_Never(outcome) == FALSE
HasFrameAfterAcquire_Always(outcome) == TRUE

\* has_frame after the acquire: set only once the acquire succeeded
HasFrameAfterAcquire(outcome) == outcome.kind = "Acquired"

\* a flag that is cleared again when the branch after the acquire fails
HasFrameAfterBranch_OnlyFrame(res) == res.kind = "Frame"

\* has_frame after the branch that follows a successful acquire: the flag
\* was set before the branch and no path of the branch touches it
HasFrameAfterBranch(res) == TRUE

\* len = (Height * Pitch as u32) as usize, for a build without overflow checks
MemoryLen(height, pitch) == USize(WrappingMul32(height, U32(pitch)))

\* the lengths and overflows of every input pair, computed once
MemoryLenOf == [h \in Heights, p \in Pitches |-> MemoryLen(h, p)]
OverflowsOf == [h \in Heights, p \in Pitches |-> MulOverflows32(h, U32(p))]

\* the in-memory branch: map the desktop surface and slice it
MemoryBranch(height, prof, in) ==
  IF ~is_ok(in.mapHr)
  THEN [calls |-> <<Call("MapDesktopSurface", in.mapHr)>>,
        result |-> [kind |-> "Unexpected", hr |-> in.mapHr],
        frame |-> NoFrame, pitch |-> "unchanged", device |-> <<>>]
  ELSE IF prof = "debug" /\ OverflowsOf[height, in.pitch]
  THEN [calls |-> <<Call("MapDesktopSurface", in.mapHr)>>,
        result |-> [kind |-> "Panic", hr |-> S_OK],
        frame |-> NoFrame, pitch |-> in.pitch, device |-> <<>>]
  ELSE [calls |-> <<Call("MapDesktopSurface", in.mapHr)>>,
        result |-> [kind |-> "Frame", hr |-> S_OK],
        frame |-> [kind |-> "Memory", len |-> MemoryLenOf[height, in.pitch]],
        pitch |-> in.pitch, device |-> <<>>]

\* a texture branch that stages and copies the texture at once
TextureBranch_Eager(in) ==
  IF ~in.resource
  THEN [calls |-> <<>>, result |-> [kind |-> "None", hr |-> S_OK],
        frame |-> NoFrame, pitch |-> "unchanged", device |-> <<>>]
  ELSE IF ~is_ok(in.castHr)
  THEN [calls |-> <<>>, result |-> [kind |-> "Unexpected", hr |-> in.castHr],
        frame |-> NoFrame, pitch |-> "unchanged", device |-> <<>>]
  ELSE [calls |-> <<>>, result |-> [kind |-> "Frame", hr |-> S_OK],
        frame |-> [kind |-> "DirectX"], pitch |-> "unchanged",
        device |-> <<"CreateTexture2D", "SetEvictionPriority", "CopyResource">>]

\* the texture branch: cast the acquired resource, no copy yet
TextureBranch(in) ==
  IF ~in.resource
  THEN [calls |-> <<>>, result |-> [kind |-> "None", hr |-> S_OK],
        frame |-> NoFrame, pitch |-> "unchanged", device |-> <<>>]
  ELSE IF ~is_ok(in.castHr)
  THEN [calls |-> <<>>, result |-> [kind |-> "Unexpected", hr |-> in.castHr],
        frame |-> NoFrame, pitch |-> "unchanged", device |-> <<>>]
  ELSE [calls |-> <<>>, result |-> [kind |-> "Frame", hr |-> S_OK],
        frame |-> [kind |-> "DirectX"], pitch |-> "unchanged", device |-> <<>>]

get_frame(self, prof, in) ==
  LET inMemory == self.desc.DesktopImageInSystemMemory
      released == ReleasePrevious(self.has_frame, inMemory, in)
      acquire  == <<Call("AcquireNextFrame", in.acquireHr)>>
      outcome  == AcquireOutcome(in.acquireHr)
      branch   == IF inMemory
                  THEN MemoryBranch(self.desc.Height, prof, in)
                  ELSE TextureBranch(in)
  IN  IF ~is_ok(Discarded(released))
      THEN [self |-> self,
            calls |-> released,
            device |-> <<>>,
            resource |-> FALSE,
            result |-> [kind |-> "Unexpected", hr |-> Discarded(released)],
            frame |-> NoFrame]
      ELSE IF outcome.kind # "Acquired"
      THEN [self |-> [self EXCEPT !.has_frame = HasFrameAfterAcquire(outcome)],
            calls |-> released \o acquire,
            device |-> <<>>,
            resource |-> FALSE,
            result |-> outcome,
            frame |-> NoFrame]
      ELSE [self |-> [self EXCEPT !.has_frame = HasFrameAfterAcquire(outcome)
                                               /\ HasFrameAfterBranch(branch.result),
                                  !.rect = IF branch.pitch = "unchanged"
                                           THEN self.rect ELSE branch.pitch],
            calls |-> released \o acquire \o branch.calls,
            device |-> branch.device,
            resource |-> in.resource,
            result |-> branch.result,
            frame |-> branch.frame]

(***************************************************************************)
(* Dx11FrameData::get_bytes and get_surface: the GPU readback.  `in` holds *)
(* createHr, readable (texture returned or not), castHr, mapHr, pitch.     *)
(***************************************************************************)
\* get_surface: create the staging texture and copy the frame into it;
\* `device` lists the calls made on the device and its context
get_surface(in) ==
  IF ~is_ok(in.createHr)
  THEN [ok |-> FALSE, device |-> <<"CreateTexture2D">>]
  ELSE IF ~in.readable
  THEN [ok |-> FALSE, device |-> <<"CreateTexture2D">>]
  ELSE IF ~is_ok(in.castHr)
  THEN [ok |-> FALSE,
        device |-> <<"CreateTexture2D", "SetEvictionPriority", "CopyResource">>]
  ELSE [ok |-> TRUE,
        device |-> <<"CreateTexture2D", "SetEvictionPriority", "CopyResource">>]

\* len = desc.Height as usize * rect.Pitch as usize
TextureLen(height, pitch) == USize(MathMul(USize(height), USize(pitch)))

TextureLenOf == [h \in Heights, p \in Pitches |-> TextureLen(h, p)]

get_bytes(height, in) ==
  LET surface == get_surface(in)
  IN  IF ~surface.ok
      THEN [ok |-> FALSE, device |-> surface.device, len |-> USize(Zero32)]
      ELSE IF ~is_ok(in.mapHr)
      THEN [ok |-> FALSE, device |-> surface.device \o <<"Map">>,
            len |-> USize(Zero32)]
      ELSE [ok |-> TRUE, device |-> surface.device \o <<"Map">>,
            len |-> TextureLenOf[height, in.pitch]]

\* DxgiFrame::as_bytes: a memory frame is its slice, a texture is read back
as_bytes(f, height, in) ==
  IF f.kind = "Memory"
  THEN [ok |-> TRUE, device |-> <<>>, len |-> f.len]
  ELSE get_bytes(height, in)

(***************************************************************************)
(* The capturer and its caller as a state machine.                         *)
(***************************************************************************)
\* number of calls named `name` in a device call list
Count(cs, name) == Cardinality({i \in 1..Len(cs) : cs[i] = name})

\* the device call counters after the calls `cs`
Counted(g, cs) ==
  [g EXCEPT !.creates = @ + Count(cs, "CreateTexture2D"),
            !.copies = @ + Count(cs, "CopyResource"),
            !.maps = @ + Count(cs, "Map"),
            !.unmaps = @ + Count(cs, "Unmap")]

GpuZero ==
  [creates |-> 0, copies |-> 0, maps |-> 0, unmaps |-> 0, reads |-> 0,
   textures |-> 0, okReads |-> 0]
NoBytes == [kind |-> "NoBytes"]

\* the answers the backend gives to the calls one get_frame call makes; a call
\* that is not made has its answer fixed
GetFrameInputs(self) ==
  LET inMemory == self.desc.DesktopImageInSystemMemory
      unmaps   == IF self.has_frame /\ inMemory THEN CallStatuses ELSE {S_OK}
      releases == IF self.has_frame THEN CallStatuses ELSE {S_OK}
      \* the acquire fails or times out: nothing is called after it
      failed   == [unmapHr : unmaps, releaseHr : releases,
                   acquireHr : AcquireStatuses \ {S_OK}, resource : {FALSE},
                   mapHr : {S_OK}, pitch : {Zero32}, castHr : {S_OK}]
      \* the acquire succeeds, the surface map fails
      unmapped == [unmapHr : unmaps, releaseHr : releases,
                   acquireHr : {S_OK}, resource : BOOLEAN,
                   mapHr : CallStatuses \ {S_OK}, pitch : {Zero32}, castHr : {S_OK}]
      \* the acquire succeeds, the surface is mapped with some pitch
      mapped   == [unmapHr : unmaps, releaseHr : releases,
                   acquireHr : {S_OK}, resource : BOOLEAN,
                   mapHr : {S_OK}, pitch : Pitches, castHr : {S_OK}]
      \* the acquire succeeds on a session of GPU textures
      texture  == [unmapHr : unmaps, releaseHr : releases,
                   acquireHr : {S_OK}, resource : BOOLEAN,
                   mapHr : {S_OK}, pitch : {Zero32}, castHr : {S_OK, E_NOINTERFACE}]
  IN  IF inMemory THEN failed \cup unmapped \cup mapped ELSE failed \cup texture

\* the answers the backend gives to the calls one as_bytes call makes
AsBytesInputs(f) ==
  IF f.kind = "Memory"
  THEN [createHr : {S_OK}, readable : {TRUE}, castHr : {S_OK}, mapHr : {S_OK},
        pitch : {Zero32}]
  ELSE [createHr : {E_FAIL}, readable : {FALSE}, castHr : {S_OK}, mapHr : {S_OK},
        pitch : {Zero32}]
       \cup [createHr : {S_OK}, readable : {FALSE}, castHr : {S_OK}, mapHr : {S_OK},
             pitch : {Zero32}]
       \cup [createHr : {S_OK}, readable : {TRUE}, castHr : {E_NOINTERFACE},
             mapHr : {S_OK}, pitch : {Zero32}]
       \cup [createHr : {S_OK}, readable : {TRUE}, castHr : {S_OK},
             mapHr : CallStatuses \ {S_OK}, pitch : {Zero32}]
       \cup [createHr : {S_OK}, readable : {TRUE}, castHr : {S_OK},
             mapHr : {S_OK}, pitch : Pitches]

Self == [desc |-> desc, rect |-> rect, has_frame |-> has_frame]

\* the enumerator and the extractor before they are used
\* Option values: None is the empty tuple, Some(x) the tuple of x
None == <<>>
Some(x) == <<x>>

DisplaysNew == [adapter |-> None, adapter_idx |-> 0, display_idx |-> 0]
NoRects == [kind |-> "none"]

NoDesc == <<>>
NoWait == <<>>
NoDisplay ==
  [capturer |-> None, made |-> "none", news |-> 0, frames |-> 0, result |-> NoResult]

DisplaysIdle ==
  /\ topo = <<>>
  /\ displays = DisplaysNew
  /\ items = <<>>
  /\ elog = <<>>
  /\ depth = 0
  /\ faults = 0
  /\ ddesc = NoDesc

\* no DxgiDisplay::frame call and no polling loop is part of the run
OwnerIdle ==
  /\ display = NoDisplay
  /\ arrival = 0
  /\ wait = NoWait
  /\ twin = None

InitCapturer ==
  /\ \E m \in BOOLEAN, h \in Heights :
       LET c == CapturerNew(m, h)
       IN  /\ desc = c.desc
           /\ rect = c.rect
           /\ has_frame = c.has_frame
  /\ profile \in Profiles
  /\ log = <<>>
  /\ held = 0
  /\ result = NoResult
  /\ frame = NoFrame
  /\ calls = 0
  /\ gpu = GpuZero
  /\ bytes = NoBytes
  /\ pc = "run"
  /\ resource = FALSE

Init ==
  /\ InitCapturer
  /\ DisplaysIdle
  /\ rects = NoRects
  /\ OwnerIdle

\* one get_frame call; the frame of the previous call is gone (its borrow ended)
GetFrame ==
  /\ pc = "run"
  /\ calls < MaxCalls
  /\ \E in \in GetFrameInputs(Self) :
       LET r == get_frame(Self, profile, in)
       IN  /\ has_frame' = r.self.has_frame
           /\ rect' = r.self.rect
           /\ log' = log \o r.calls
           /\ held' = HeldAfter(held, r.calls)
           /\ result' = r.result
           /\ frame' = r.frame
           /\ gpu' = Counted(GpuZero, r.device)
           /\ pc' = IF r.result.kind = "Panic" THEN "panicked" ELSE "run"
           /\ resource' = r.resource
  /\ calls' = calls + 1
  /\ bytes' = NoBytes
  /\ UNCHANGED <<desc, profile, displaysVars, rects, ownerVars>>

\* one as_bytes call on the frame the caller holds
AsBytes ==
  /\ pc = "run"
  /\ frame # NoFrame
  /\ gpu.reads < MaxAsBytes
  /\ \E in \in AsBytesInputs(frame) :
       LET r == as_bytes(frame, desc.Height, in)
       IN  /\ gpu' = [Counted(gpu, r.device) EXCEPT
                        !.reads = @ + 1,
                        !.textures = @ + (IF frame.kind = "DirectX" /\ is_ok(in.createHr)
                                             /\ in.readable THEN 1 ELSE 0),
                        !.okReads = @ + (IF r.ok THEN 1 ELSE 0)]
           /\ bytes' = IF r.ok THEN [kind |-> "Ok", len |-> r.len]
                       ELSE [kind |-> "Err"]
  /\ UNCHANGED <<desc, rect, has_frame, profile, log, held, result, frame, calls, pc>>
  /\ UNCHANGED <<resource, displaysVars, rects, ownerVars>>

Next == GetFrame \/ AsBytes

Spec == Init /\ [][Next]_vars

(***************************************************************************)
(* DxgiDisplays: the adapter/output enumerator.  Adapters and outputs are  *)
(* ordinals from 0.  A fault is one backend answer that the topology does  *)
(* not explain, given at one nesting level of next_display.                *)
(***************************************************************************)
NoneItem == [kind |-> "None"]
Display(a, o) == [kind |-> "Display", adapter |-> a, output |-> o]
ErrItem(hr) == [kind |-> "Err", hr |-> hr]

NoFault == [call |-> "none", hr |-> S_OK, depth |-> 0]

Faults ==
  {NoFault}
  \cup [call : {"EnumAdapters1", "EnumOutputs", "GetDesc"}, hr : {E_FAIL},
        depth : 0..MaxAdapters]
  \cup [call : {"cast"}, hr : {E_NOINTERFACE}, depth : 0..MaxAdapters]
  \cup [call : {"AdapterNone", "OutputNone"}, hr : {S_OK}, depth : 0..MaxAdapters]

FaultAt(fault, d) == IF fault.depth = d THEN fault ELSE NoFault

ECall(name, idx, hr) == [call |-> name, idx |-> idx, hr |-> hr]

\* IDXGIFactory1::EnumAdapters1 at ordinal idx
EnumAdapters1(tp, idx, f) ==
  IF f.call = "EnumAdapters1" THEN [hr |-> f.hr, adapter |-> None]
  ELSE IF f.call = "AdapterNone" THEN [hr |-> S_OK, adapter |-> None]
  ELSE IF idx < Len(tp) THEN [hr |-> S_OK, adapter |-> Some(idx)]
  ELSE [hr |-> DXGI_ERROR_NOT_FOUND, adapter |-> None]

\* IDXGIAdapter1::EnumOutputs of adapter a at ordinal idx
EnumOutputs(tp, a, idx, f) ==
  IF f.call = "EnumOutputs" THEN [hr |-> f.hr, output |-> None]
  ELSE IF f.call = "OutputNone" THEN [hr |-> S_OK, output |-> None]
  ELSE IF idx < tp[a + 1] THEN [hr |-> S_OK, output |-> Some(idx)]
  ELSE [hr |-> DXGI_ERROR_NOT_FOUND, output |-> None]

\* an adapter lookup that takes "not found" for an error
AdapterOutcome_Strict(hr) == IF ~is_ok(hr) THEN "err" ELSE "ok"

\* what next_display does with the status of the adapter lookup
AdapterOutcome(hr) ==
  IF hr = DXGI_ERROR_NOT_FOUND THEN "end"
  ELSE IF ~is_ok(hr) THEN "err"
  ELSE "ok"

\* an advance that keeps the output ordinal of the exhausted adapter
AdvanceAdapter_NoReset(self) ==
  [self EXCEPT !.adapter = None, !.adapter_idx = @ + 1]

\* no more outputs on this adapter: go to the next adapter, output 0
AdvanceAdapter(self) ==
  [self EXCEPT !.adapter = None, !.adapter_idx = @ + 1, !.display_idx = 0]

\* an enumerator that starts over once it has run past the last adapter
AtEnd_Restart(self) == [self EXCEPT !.adapter_idx = 0, !.display_idx = 0]

\* `return Ok(None)` past the last adapter: the ordinals stay as they are
AtEnd(self) == self

RECURSIVE next_display(_, _, _, _)
next_display(self, tp, fault, d) ==
  LET f      == FaultAt(fault, d)
      lookup == EnumAdapters1(tp, self.adapter_idx, f)
      looked == self.adapter = None
      s1     == IF looked THEN [self EXCEPT !.adapter = lookup.adapter] ELSE self
      c1     == IF looked
                THEN <<ECall("EnumAdapters1", self.adapter_idx, lookup.hr)>>
                ELSE <<>>
      out    == EnumOutputs(tp, s1.adapter[1], s1.display_idx, f)
      c2     == c1 \o <<ECall("EnumOutputs", s1.display_idx, out.hr)>>
      again  == next_display(AdvanceAdapter(s1), tp, fault, d + 1)
  IN  IF looked /\ AdapterOutcome(lookup.hr) = "end"
      THEN [self |-> AtEnd(s1), item |-> NoneItem, calls |-> c1, depth |-> d]
      ELSE IF looked /\ AdapterOutcome(lookup.hr) = "err"
      THEN [self |-> s1, item |-> ErrItem(lookup.hr), calls |-> c1, depth |-> d]
      ELSE IF s1.adapter = None
      THEN [self |-> s1, item |-> NoneItem, calls |-> c1, depth |-> d]
      ELSE IF out.hr = DXGI_ERROR_NOT_FOUND
      THEN [again EXCEPT !.calls = c2 \o @]
      ELSE IF ~is_ok(out.hr)
      THEN [self |-> s1, item |-> ErrItem(out.hr), calls |-> c2, depth |-> d]
      ELSE IF out.output = None
      THEN [again EXCEPT !.calls = c2 \o @]
      ELSE IF f.call = "GetDesc"
      THEN [self |-> s1, item |-> ErrItem(f.hr),
            calls |-> c2 \o <<ECall("GetDesc", out.output[1], f.hr)>>, depth |-> d]
      ELSE IF f.call = "cast"
      THEN [self |-> [s1 EXCEPT !.display_idx = @ + 1], item |-> ErrItem(f.hr),
            calls |-> c2 \o <<ECall("GetDesc", out.output[1], S_OK),
                              ECall("cast", out.output[1], f.hr)>>,
            depth |-> d]
      ELSE [self |-> [s1 EXCEPT !.display_idx = @ + 1],
            item |-> Display(s1.adapter[1], out.output[1]),
            calls |-> c2 \o <<ECall("GetDesc", out.output[1], S_OK),
                              ECall("cast", out.output[1], S_OK)>>,
            depth |-> d]

\* every topology of at most MaxAdapters adapters with at most MaxOutputs outputs
Topologies == UNION {[1..n -> 0..MaxOutputs] : n \in 0..MaxAdapters}

CapturerIdle ==
  /\ desc = "None" /\ rect = "None" /\ has_frame = FALSE /\ profile = "release"
  /\ log = <<>> /\ held = 0 /\ result = NoResult /\ frame = NoFrame
  /\ calls = 0 /\ gpu = GpuZero /\ bytes = NoBytes /\ pc = "run"
  /\ resource = FALSE

\* DXGI_OUTPUT_DESC.DesktopCoordinates as the backend may report them: a
\* primary monitor, a monitor left of it, and two descriptors whose edges
\* are swapped
Coordinates ==
  {[left |-> 0, top |-> 0, right |-> 1920, bottom |-> 1080],
   [left |-> -1920, top |-> 0, right |-> 0, bottom |-> 1080],
   [left |-> 1920, top |-> 0, right |-> 0, bottom |-> 1080],
   [left |-> 0, top |-> 1080, right |-> 1920, bottom |-> 0]}

\* the descriptors GetDesc may fill in; nothing is kept of one that is not
\* stored in a display
DescAnswers(item) ==
  IF item.kind = "Display" THEN Coordinates
  ELSE {CHOOSE c \in Coordinates : c.left = 0 /\ c.bottom > c.top}

\* the descriptor GetDesc filled in, as it is stored in the yielded display
YieldedDesc(item, coords, last) ==
  IF item.kind = "Display" THEN [DesktopCoordinates |-> coords] ELSE last

\* the digits of a natural number below 2^31, low byte first
NatDigits(n) == [i \in 1..4 |-> (n \div (Byte ^ (i - 1))) % Byte]

\* `n as usize` of an i32: sign-extended to 64 bits, two's complement
as_usize(n) ==
  IF n >= 0 THEN USize(NatDigits(n))
  ELSE [i \in 1..8 |-> (Byte - 1) - USize(NatDigits((-n) - 1))[i]]

\* DxgiDisplay::width and DxgiDisplay::height
width(d) == as_usize(d.DesktopCoordinates.right - d.DesktopCoordinates.left)
height(d) == as_usize(d.DesktopCoordinates.bottom - d.DesktopCoordinates.top)

\* DxgiDisplays::new over some topology
InitDisplays ==
  /\ topo \in Topologies
  /\ displays = DisplaysNew
  /\ items = <<>>
  /\ elog = <<>>
  /\ depth = 0
  /\ faults = 0
  /\ ddesc = NoDesc
  /\ CapturerIdle
  /\ rects = NoRects
  /\ OwnerIdle

\* Iterator::next: one next_display call, transposed
IteratorNext ==
  /\ Len(items) < MaxNext
  /\ \E fault \in Faults :
       LET r     == next_display(displays, topo, fault, 0)
           plain == next_display(displays, topo, NoFault, 0)
           fired == r # plain
       IN  /\ fault # NoFault => (fired /\ faults < MaxFaults)
           /\ displays' = r.self
           /\ \E coords \in DescAnswers(r.item) :
                ddesc' = YieldedDesc(r.item, coords, ddesc)
           /\ items' = Append(items, r.item)
           /\ elog' = r.calls
           /\ depth' = r.depth
           /\ faults' = IF fired THEN faults + 1 ELSE faults
  /\ UNCHANGED <<topo, capturerVars, rects, ownerVars>>

NextDisplays == IteratorNext

SpecDisplays == InitDisplays /\ [][NextDisplays]_vars

(***************************************************************************)
(* DxgiFrame::get_dirty_rects and get_moved_rects: the change-rectangle    *)
(* extractor.  An answer of the backend to one query is its status and the *)
(* count it writes to the length out-parameter, None when it writes none.  *)
(***************************************************************************)
RECT_BUF_LEN == 16
RECT_BUF_MAX_LEN == 7000 - RECT_BUF_LEN

min(a, b) == IF a < b THEN a ELSE b
saturating_sub(a, b) == IF a > b THEN a - b ELSE 0

\* Iterator::take(n) over a vector of `len` entries yields this many entries
take(len, n) == min(len, n)

\* the length out-parameter after a query that found `before` in it
LenAfter(before, answer) ==
  IF answer.count = None THEN before ELSE answer.count[1]

\* an extractor that returns the whole buffer, whatever count was reported
get_dirty_rects_TakeAll(q1, q2) ==
  LET len1 == LenAfter(0, q1)
      more == min(RECT_BUF_MAX_LEN, saturating_sub(len1, RECT_BUF_LEN))
      cap  == RECT_BUF_LEN + more
      len2 == IF more > 0 THEN LenAfter(len1, q2) ELSE len1
  IN  [kind |-> "dirty",
       answers |-> IF more > 0 THEN <<q1, q2>> ELSE <<q1>>,
       asked |-> IF more > 0 THEN <<RECT_BUF_LEN, cap>> ELSE <<RECT_BUF_LEN>>,
       len |-> len2, cap |-> cap, returned |-> cap]

\* an extractor that grows the buffer by all that the first count asks for
get_dirty_rects_Uncapped(q1, q2) ==
  LET len1 == LenAfter(0, q1)
      more == saturating_sub(len1, RECT_BUF_LEN)
      cap  == RECT_BUF_LEN + more
      len2 == IF more > 0 THEN LenAfter(len1, q2) ELSE len1
  IN  [kind |-> "dirty",
       answers |-> IF more > 0 THEN <<q1, q2>> ELSE <<q1>>,
       asked |-> IF more > 0 THEN <<RECT_BUF_LEN, cap>> ELSE <<RECT_BUF_LEN>>,
       len |-> len2, cap |-> cap, returned |-> take(cap, len2)]

get_dirty_rects(q1, q2) ==
  LET len1 == LenAfter(0, q1)
      more == min(RECT_BUF_MAX_LEN, saturating_sub(len1, RECT_BUF_LEN))
      cap  == RECT_BUF_LEN + more
      len2 == IF more > 0 THEN LenAfter(len1, q2) ELSE len1
  IN  [kind |-> "dirty",
       answers |-> IF more > 0 THEN <<q1, q2>> ELSE <<q1>>,
       asked |-> IF more > 0 THEN <<RECT_BUF_LEN, cap>> ELSE <<RECT_BUF_LEN>>,
       len |-> len2, cap |-> cap, returned |-> take(cap, len2)]

\* an extractor that grows the buffer to whatever count was reported
get_moved_rects_Uncapped(q1, q2) ==
  LET len1 == LenAfter(0, q1)
      more == saturating_sub(len1, RECT_BUF_LEN)
      cap  == RECT_BUF_LEN + more
      len2 == IF more > 0 THEN LenAfter(len1, q2) ELSE len1
  IN  [kind |-> "moved",
       answers |-> IF more > 0 THEN <<q1, q2>> ELSE <<q1>>,
       asked |-> IF more > 0 THEN <<RECT_BUF_LEN, cap>> ELSE <<RECT_BUF_LEN>>,
       len |-> len2, cap |-> cap, returned |-> take(cap, len2)]

get_moved_rects(q1, q2) ==
  LET len1 == LenAfter(0, q1)
      more == min(RECT_BUF_MAX_LEN, saturating_sub(len1, RECT_BUF_LEN))
      cap  == RECT_BUF_LEN + more
      len2 == IF more > 0 THEN LenAfter(len1, q2) ELSE len1
  IN  [kind |-> "moved",
       answers |-> IF more > 0 THEN <<q1, q2>> ELSE <<q1>>,
       asked |-> IF more > 0 THEN <<RECT_BUF_LEN, cap>> ELSE <<RECT_BUF_LEN>>,
       len |-> len2, cap |-> cap, returned |-> take(cap, len2)]

\* the counts the backend reports
Counts ==
  (0..MaxCount) \cup {100, RECT_BUF_MAX_LEN - 1, RECT_BUF_MAX_LEN,
                      RECT_BUF_MAX_LEN + 1, 6999, 7000, 7001, 9000, 1000000}

\* answers: success with a count, failure without, failure with a count
Answers ==
  [hr : {S_OK}, count : {Some(r) : r \in Counts}]
  \cup [hr : {DXGI_ERROR_ACCESS_LOST}, count : {None}]
  \cup [hr : {DXGI_ERROR_MORE_DATA}, count : {Some(r) : r \in Counts}]

\* the second answer matters only when the first one makes the buffer grow
SecondAnswers(q1) ==
  IF LenAfter(0, q1) > RECT_BUF_LEN THEN Answers
  ELSE {[hr |-> S_OK, count |-> None]}

\* a texture session right after its first successful get_frame
InitRects ==
  /\ LET c == CapturerNew(FALSE, <<56, 4, 0, 0>>)
         r == get_frame(c, "release",
                        [unmapHr |-> S_OK, releaseHr |-> S_OK, acquireHr |-> S_OK,
                         resource |-> TRUE, mapHr |-> S_OK, pitch |-> Zero32,
                         castHr |-> S_OK])
     IN  /\ desc = r.self.desc
         /\ rect = r.self.rect
         /\ has_frame = r.self.has_frame
         /\ log = r.calls
         /\ held = HeldAfter(0, r.calls)
         /\ result = r.result
         /\ frame = r.frame
         /\ gpu = Counted(GpuZero, r.device)
         /\ resource = r.resource
  /\ profile = "release"
  /\ calls = 1
  /\ bytes = NoBytes
  /\ pc = "run"
  /\ DisplaysIdle
  /\ rects = NoRects
  /\ OwnerIdle

\* one dirty() call on the live frame
Dirty ==
  /\ frame # NoFrame
  /\ \E q1 \in Answers : \E q2 \in SecondAnswers(q1) :
       rects' = get_dirty_rects(q1, q2)
  /\ UNCHANGED <<capturerVars, displaysVars, ownerVars>>

\* one moved() call on the live frame
Moved ==
  /\ frame # NoFrame
  /\ \E q1 \in Answers : \E q2 \in SecondAnswers(q1) :
       rects' = get_moved_rects(q1, q2)
  /\ UNCHANGED <<capturerVars, displaysVars, ownerVars>>

NextRects == Dirty \/ Moved

SpecRects == InitRects /\ [][NextRects]_vars

(***************************************************************************)
(* DxgiDisplay: the owner of the capturer.  display.capturer is the        *)
(* Option<DxgiDisplayCapturer> slot, display.made what the last frame()    *)
(* call did about construction ("none", "ok", "failed"), display.news the  *)
(* number of capturers constructed, display.frames the number of frame()   *)
(* calls, display.result what the last one gave its caller.                *)
(***************************************************************************)
\* DxgiDisplayCapturer::new.  `in` holds what the backend answers: createHr,
\* device, context (present or not), dupHr, duplication (present or not),
\* and the session descriptor inMemory, height
DxgiDisplayCapturer_new(in) ==
  IF ~is_ok(in.createHr)
  THEN [ok |-> FALSE, err |-> [kind |-> "Unexpected", hr |-> in.createHr],
        capturer |-> None]
  ELSE IF ~in.device \/ ~in.context
  THEN [ok |-> FALSE, err |-> [kind |-> "None", hr |-> S_OK], capturer |-> None]
  ELSE IF ~is_ok(in.dupHr)
  THEN [ok |-> FALSE, err |-> [kind |-> "Unexpected", hr |-> in.dupHr],
        capturer |-> None]
  ELSE IF ~in.duplication
  THEN [ok |-> FALSE, err |-> [kind |-> "None", hr |-> S_OK], capturer |-> None]
  ELSE [ok |-> TRUE, err |-> NoResult,
        capturer |-> Some(CapturerNew(in.inMemory, in.height))]

\* a slot that is filled anew on every call
NeedsCapturer_Always(slot) == TRUE

\* self.capturer.is_none()
NeedsCapturer(slot) == slot = None

\* DxgiDisplay::capturer_mut: fill the slot if it is empty, unwrapping the
\* result of the construction; a panic leaves the slot as it was
capturer_mut(slot, in) ==
  IF NeedsCapturer(slot)
  THEN LET made == DxgiDisplayCapturer_new(in)
       IN  IF made.ok
           THEN [panic |-> FALSE, made |-> "ok", err |-> NoResult,
                 slot |-> made.capturer]
           ELSE [panic |-> TRUE, made |-> "failed", err |-> made.err, slot |-> slot]
  ELSE [panic |-> FALSE, made |-> "none", err |-> NoResult, slot |-> slot]

\* a conversion that wraps every driver error, the timeout too
FromDxgi_WrapAll(inner) == [kind |-> "Dxgi", inner |-> inner]

\* impl From<dxgi::errors::FrameError> for FrameError
FromDxgi(inner) ==
  IF inner.kind = "WouldBlock" THEN [kind |-> "WouldBlock", inner |-> NoResult]
  ELSE [kind |-> "Dxgi", inner |-> inner]

\* what frame() hands to its caller for a result of get_frame: `?` converts
\* an error, Ok wraps the frame
Returned(res) ==
  IF res.kind = "Frame" THEN [kind |-> "Frame", inner |-> NoResult]
  ELSE IF res.kind = "Panic" THEN [kind |-> "Panic", inner |-> NoResult]
  ELSE FromDxgi(res)

\* the answers the backend gives to the calls one DxgiDisplayCapturer::new
\* makes; none is made while the slot is filled
NewInputs(slot) ==
  LET fine == [createHr : {S_OK}, device : {TRUE}, context : {TRUE},
               dupHr : {S_OK}, duplication : {TRUE},
               inMemory : BOOLEAN, height : Heights]
      none == [createHr |-> S_OK, device |-> TRUE, context |-> TRUE,
               dupHr |-> S_OK, duplication |-> TRUE,
               inMemory |-> FALSE, height |-> Zero32]
  IN  IF ~NeedsCapturer(slot) THEN {none}
      ELSE fine
           \cup {[none EXCEPT !.createHr = E_FAIL],
                 [none EXCEPT !.device = FALSE],
                 [none EXCEPT !.context = FALSE],
                 [none EXCEPT !.dupHr = E_FAIL],
                 [none EXCEPT !.duplication = FALSE]}

\* a display as the enumerator yields it, in a binary of either profile
InitFrame ==
  /\ desc = "None" /\ rect = "None" /\ has_frame = FALSE
  /\ profile \in Profiles
  /\ log = <<>> /\ held = 0 /\ result = NoResult /\ frame = NoFrame
  /\ calls = 0 /\ gpu = GpuZero /\ bytes = NoBytes /\ pc = "run"
  /\ resource = FALSE
  /\ DisplaysIdle
  /\ rects = NoRects
  /\ display = NoDisplay
  /\ arrival = 0
  /\ wait = NoWait
  /\ twin = None

\* one DxgiDisplay::frame call: capturer_mut()?.get_frame(8 ms)?
Frame ==
  /\ pc = "run"
  /\ display.frames < MaxCalls
  /\ \E nin \in NewInputs(display.capturer) :
       LET cm == capturer_mut(display.capturer, nin)
       IN  IF cm.panic
           THEN /\ display' = [display EXCEPT !.made = cm.made,
                                              !.frames = @ + 1,
                                              !.result = Returned([kind |-> "Panic"])]
                /\ pc' = "panicked"
                /\ result' = NoResult
                /\ frame' = NoFrame
                /\ UNCHANGED <<desc, rect, has_frame, log, held, calls, gpu, resource>>
           ELSE \E in \in GetFrameInputs(cm.slot[1]) :
                  LET r == get_frame(cm.slot[1], profile, in)
                  IN  /\ display' = [capturer |-> Some(r.self),
                                     made |-> cm.made,
                                     news |-> display.news
                                              + (IF cm.made = "ok" THEN 1 ELSE 0),
                                     frames |-> display.frames + 1,
                                     result |-> Returned(r.result)]
                      /\ desc' = r.self.desc
                      /\ rect' = r.self.rect
                      /\ has_frame' = r.self.has_frame
                      /\ log' = log \o r.calls
                      /\ held' = HeldAfter(held, r.calls)
                      /\ result' = r.result
                      /\ frame' = r.frame
                      /\ gpu' = Counted(GpuZero, r.device)
                      /\ resource' = r.resource
                      /\ calls' = calls + 1
                      /\ pc' = IF r.result.kind = "Panic" THEN "panicked" ELSE "run"
  /\ bytes' = NoBytes
  /\ UNCHANGED <<profile, displaysVars, rects, arrival, wait, twin>>

NextFrame == Frame

SpecFrame == InitFrame /\ [][NextFrame]_vars

(***************************************************************************)
(* The polling loop of test_get_frame and of the benchmark: get_frame is   *)
(* called again after WouldBlock and after a frame, any other error ends   *)
(* the loop.  The backend has no frame pending for the first `arrival`     *)
(* acquires and one for every acquire after them, and it fails no call.    *)
(***************************************************************************)
\* the answers of a backend that only ever times out: every call but the
\* acquire succeeds, a successful acquire supplies its resource, and the
\* acquire times out while no frame is pending
PollInputs(self, pending) ==
  {in \in GetFrameInputs(self) :
     /\ in.unmapHr = S_OK
     /\ in.releaseHr = S_OK
     /\ in.mapHr = S_OK
     /\ in.castHr = S_OK
     /\ in.acquireHr = (IF pending THEN S_OK ELSE DXGI_ERROR_WAIT_TIMEOUT)
     /\ (pending => in.resource)}

InitPoll ==
  /\ InitCapturer
  /\ DisplaysIdle
  /\ rects = NoRects
  /\ display = NoDisplay
  /\ arrival \in 0..(MaxCalls - 1)
  /\ wait = NoWait
  /\ twin = None

\* one iteration of the loop
Poll ==
  /\ pc = "run"
  /\ calls < MaxCalls
  /\ result.kind \in {"NoResult", "WouldBlock", "Frame"}
  /\ \E in \in PollInputs(Self, calls >= arrival) :
       LET r == get_frame(Self, profile, in)
       IN  /\ has_frame' = r.self.has_frame
           /\ rect' = r.self.rect
           /\ log' = log \o r.calls
           /\ held' = HeldAfter(held, r.calls)
           /\ result' = r.result
           /\ frame' = r.frame
           /\ gpu' = Counted(GpuZero, r.device)
           /\ pc' = IF r.result.kind = "Panic" THEN "panicked" ELSE "run"
           /\ resource' = r.resource
  /\ calls' = calls + 1
  /\ bytes' = NoBytes
  /\ UNCHANGED <<desc, profile, displaysVars, rects, ownerVars>>

NextPoll == Poll

SpecPoll == InitPoll /\ [][NextPoll]_vars

(***************************************************************************)
(* get_frame with the caller's timeout.  A Duration is its whole           *)
(* milliseconds as_millis() returns, a u128 in 16 digits.                  *)
(***************************************************************************)
U128(a) == Resize(a, 16)

\* the durations of the callers (8 ms in frame(), 16 ms in the test), the
\* largest one that fits 32 bits, and longer ones
Timeouts ==
  {U128(<<0>>), U128(<<8>>), U128(<<16>>),
   U128(<<255, 255, 255, 255>>),
   U128(<<0, 0, 0, 0, 1>>),
   U128(<<16, 0, 0, 0, 1>>),
   U128(<<0, 0, 0, 0, 0, 1>>)}

\* timeout.as_millis() as u32, the argument of AcquireNextFrame
AcquireTimeout(timeout) == U32(timeout)

\* a fresh capturer on a session of GPU textures, 1080 lines high
InitTimed ==
  /\ LET c == CapturerNew(FALSE, <<56, 4, 0, 0>>)
     IN  /\ desc = c.desc
         /\ rect = c.rect
         /\ has_frame = c.has_frame
  /\ profile = "release"
  /\ log = <<>>
  /\ held = 0
  /\ result = NoResult
  /\ frame = NoFrame
  /\ calls = 0
  /\ gpu = GpuZero
  /\ bytes = NoBytes
  /\ pc = "run"
  /\ resource = FALSE
  /\ DisplaysIdle
  /\ rects = NoRects
  /\ OwnerIdle

\* one get_frame(timeout) call
TimedGetFrame ==
  /\ pc = "run"
  /\ calls < MaxCalls
  /\ \E timeout \in Timeouts :
       wait' = [timeout |-> timeout, passed |-> AcquireTimeout(timeout)]
  /\ \E in \in GetFrameInputs(Self) :
       LET r == get_frame(Self, profile, in)
       IN  /\ has_frame' = r.self.has_frame
           /\ rect' = r.self.rect
           /\ log' = log \o r.calls
           /\ held' = HeldAfter(held, r.calls)
           /\ result' = r.result
           /\ frame' = r.frame
           /\ gpu' = Counted(GpuZero, r.device)
           /\ pc' = IF r.result.kind = "Panic" THEN "panicked" ELSE "run"
           /\ resource' = r.resource
  /\ calls' = calls + 1
  /\ bytes' = NoBytes
  /\ UNCHANGED <<desc, profile, displaysVars, rects, display, arrival, twin>>

NextTimed == TimedGetFrame

SpecTimed == InitTimed /\ [][NextTimed]_vars

(***************************************************************************)
(* #[derive(Clone)] on DxgiDisplayCapturer (and on the DxgiDisplay that    *)
(* owns one): the clone copies rect, desc and has_frame and holds the same *)
(* IDXGIOutputDuplication, so `log` and `held` are the one session of both *)
(* values.  `twin` is the clone, the capturer variables the original.      *)
(***************************************************************************)
\* DxgiDisplayCapturer::clone
Clone ==
  /\ pc = "run"
  /\ twin = None
  /\ twin' = Some(Self)
  /\ UNCHANGED <<capturerVars, displaysVars, rects, display, arrival, wait>>

\* one get_frame call on the clone
TwinGetFrame ==
  /\ pc = "run"
  /\ twin # None
  /\ calls < MaxCalls
  /\ \E in \in GetFrameInputs(twin[1]) :
       LET r == get_frame(twin[1], profile, in)
       IN  /\ twin' = Some(r.self)
           /\ log' = log \o r.calls
           /\ held' = HeldAfter(held, r.calls)
           /\ result' = r.result
           /\ frame' = r.frame
           /\ gpu' = Counted(GpuZero, r.device)
           /\ pc' = IF r.result.kind = "Panic" THEN "panicked" ELSE "run"
           /\ resource' = r.resource
  /\ calls' = calls + 1
  /\ bytes' = NoBytes
  /\ UNCHANGED <<desc, rect, has_frame, profile, displaysVars, rects>>
  /\ UNCHANGED <<display, arrival, wait>>

NextClone == GetFrame \/ Clone \/ TwinGetFrame

SpecClone == Init /\ [][NextClone]_vars

(***************************************************************************)
(* Properties of the capturer.                                             *)
(***************************************************************************)
IsAcquire(c) == c.call = "AcquireNextFrame"
Timeout == Call("AcquireNextFrame", DXGI_ERROR_WAIT_TIMEOUT)

\* C1: the call log never has two AcquireNextFrame calls, the earlier one
\* successful, without a ReleaseFrame call between them
C1_ReleaseBetweenAcquires ==
  \A i, j \in 1..Len(log) :
    (i < j /\ IsAcquire(log[i]) /\ is_ok(log[i].hr) /\ IsAcquire(log[j]))
      => \E k \in (i + 1)..(j - 1) : log[k].call = "ReleaseFrame"

\* a successful acquire, its release, and a later acquire are in the log
C1_Witness ==
  \E i, j \in 1..Len(log) :
    /\ i < j /\ IsAcquire(log[i]) /\ is_ok(log[i].hr) /\ IsAcquire(log[j])
    /\ \E k \in (i + 1)..(j - 1) : log[k].call = "ReleaseFrame"

\* C2: the backend never holds more than one acquired, unreleased frame
C2_AtMostOneHeld == held <= 1

\* a second frame is held after the first one was released
C2_Witness ==
  /\ held = 1
  /\ has_frame
  /\ \E k \in 1..Len(log) : log[k].call = "ReleaseFrame"

\* C3: a get_frame call whose acquire times out returns WouldBlock and leaves
\* the capturer idle; when the call before it returned WouldBlock too, the
\* acquire is the only backend call it issues (no unmap, no release)
C3_WouldBlockIdempotent ==
  [][(calls' = calls + 1 /\ log'[Len(log')] = Timeout)
       => /\ result'.kind = "WouldBlock"
          /\ ~has_frame'
          /\ frame' = NoFrame
          /\ (result.kind = "WouldBlock" => log' = log \o <<Timeout>>)]_vars

\* two timed-out calls in a row
C3_Witness ==
  /\ Len(log) >= 2
  /\ log[Len(log)] = Timeout
  /\ log[Len(log) - 1] = Timeout
  /\ result.kind = "WouldBlock"
  /\ ~has_frame

\* C4: a get_frame call whose acquire fails with a status other than the
\* timeout returns the error that carries that status, and leaves the
\* capturer idle with no frame held, whatever its state before
C4_AcquireFailureIsFatal ==
  [][(/\ calls' = calls + 1
      /\ IsAcquire(log'[Len(log')])
      /\ ~is_ok(log'[Len(log')].hr)
      /\ log'[Len(log')].hr # DXGI_ERROR_WAIT_TIMEOUT)
       => /\ result' = [kind |-> "Unexpected", hr |-> log'[Len(log')].hr]
          /\ ~has_frame'
          /\ frame' = NoFrame
          /\ held' = 0]_vars

\* a failed acquire right after the release of a held frame
C4_Witness ==
  /\ Len(log) >= 3
  /\ log[Len(log)] = Call("AcquireNextFrame", DXGI_ERROR_ACCESS_LOST)
  /\ log[Len(log) - 1].call = "ReleaseFrame"
  /\ result.kind = "Unexpected"
  /\ result.hr = DXGI_ERROR_ACCESS_LOST

\* C8: the bytes of a memory frame have length Height * Pitch, the exact
\* product, also when it does not fit in 32 bits
C8_MemoryLenIsProduct ==
  (frame.kind = "Memory" /\ bytes.kind = "Ok")
    => bytes.len = MathMul(desc.Height, U32(rect))

\* C9 as stated: on a texture frame every as_bytes call so far issued one
\* staging-texture creation and one copy, and get_frame issued none
C9_OneCreateOneCopyPerCall ==
  frame.kind = "DirectX" => (gpu.creates = gpu.reads /\ gpu.copies = gpu.reads)

\* C9 amended: every as_bytes call issued one staging-texture creation; one
\* copy was issued for each creation that returned a texture and none for the
\* others, so every successful call issued its own copy; get_frame issued none
C9_ReadbackPerCall ==
  frame.kind = "DirectX"
    => /\ gpu.creates = gpu.reads
       /\ gpu.copies = gpu.textures
       /\ gpu.okReads <= gpu.copies
       /\ (gpu.okReads = gpu.reads => gpu.copies = gpu.reads)

\* two successful as_bytes calls on one texture frame
C9_Witness ==
  /\ frame.kind = "DirectX"
  /\ gpu.reads = 2
  /\ gpu.okReads = 2
  /\ gpu.creates = 2
  /\ gpu.copies = 2

(***************************************************************************)
(* Properties of the enumerator.                                           *)
(***************************************************************************)
\* the displays of adapters a.. in adapter-major, output-minor order
RECURSIVE AllDisplays(_, _)
AllDisplays(tp, a) ==
  IF a >= Len(tp) THEN <<>>
  ELSE [j \in 1..tp[a + 1] |-> Display(a, j - 1)] \o AllDisplays(tp, a + 1)

\* C5: while the backend answers by its topology, the n-th next() yields the
\* n-th output in adapter-major, output-minor order, and None once every
\* output has been yielded
C5_AdapterMajorOrder ==
  faults = 0
    => \A n \in 1..Len(items) :
         items[n] = IF n <= Len(AllDisplays(topo, 0))
                    THEN AllDisplays(topo, 0)[n]
                    ELSE NoneItem

\* an adapter without outputs between two adapters with outputs, all yielded
C5_Witness ==
  /\ faults = 0
  /\ topo = <<1, 0, 2>>
  /\ items = <<Display(0, 0), Display(2, 0), Display(2, 1), NoneItem>>

\* C6: when the adapter lookup of a next() call answers "not found", the call
\* yields None and no error; with zero adapters every next() yields None
C6_NotFoundEndsEnumeration ==
  /\ (/\ elog # <<>>
      /\ elog[Len(elog)].call = "EnumAdapters1"
      /\ elog[Len(elog)].hr = DXGI_ERROR_NOT_FOUND)
       => items[Len(items)] = NoneItem
  /\ (topo = <<>> /\ faults = 0)
       => \A n \in 1..Len(items) : items[n] = NoneItem

\* the lookup past the last adapter answered "not found" and None was yielded
C6_Witness ==
  /\ topo = <<1>>
  /\ items = <<Display(0, 0), NoneItem>>
  /\ elog[Len(elog)] = ECall("EnumAdapters1", 1, DXGI_ERROR_NOT_FOUND)

\* C7: once next() has yielded an error, every later next() yields None
C7_ErrorTerminatesIteration ==
  \A i, j \in 1..Len(items) :
    (i < j /\ items[i].kind = "Err") => items[j] = NoneItem

(***************************************************************************)
(* Properties of the change-rectangle extractor.                           *)
(***************************************************************************)
\* C10: dirty() and moved() return min(r, capacity after growth) entries for
\* the count r the backend reported; when the first reported count is at
\* most 16 the backend is queried once, the buffer keeps its 16 entries and
\* exactly that many entries are returned
C10_ReturnsReportedCount ==
  rects # NoRects
    => /\ rects.returned = (IF rects.len <= rects.cap THEN rects.len ELSE rects.cap)
       /\ (rects.answers[1].count # None /\ rects.answers[1].count[1] <= 16)
            => /\ Len(rects.answers) = 1
               /\ rects.cap = 16
               /\ rects.returned = rects.answers[1].count[1]

\* ten rectangles reported against the 16-entry buffer
C10_Witness ==
  /\ rects # NoRects
  /\ rects.kind = "dirty"
  /\ rects.answers = <<[hr |-> S_OK, count |-> Some(10)]>>
  /\ rects.cap = 16
  /\ rects.returned = 10

\* the backend reports the count r, above the default 16, to the first query
\* and the same count to a second one
ReportsSteadily(r) ==
  /\ rects # NoRects
  /\ r > RECT_BUF_LEN
  /\ rects.answers[1].count = Some(r)
  /\ (Len(rects.answers) >= 2 => rects.answers[2].count = Some(r))

\* C11 as stated: a count r above 16 makes the extractor grow the buffer once
\* to min(r, 7000 - 16) entries, query again once and return that many
C11_GrowsToHardCap ==
  \A r \in Counts :
    ReportsSteadily(r)
      => /\ rects.asked = <<RECT_BUF_LEN, min(r, RECT_BUF_MAX_LEN)>>
         /\ Len(rects.answers) = 2
         /\ rects.cap = min(r, RECT_BUF_MAX_LEN)
         /\ rects.returned = min(r, RECT_BUF_MAX_LEN)

\* C11 amended: a count r above 16 makes the extractor grow the buffer once,
\* by min(r - 16, 7000 - 16) entries to min(r, 7000) entries in all, query
\* again once and return min(r, 7000) entries
C11_GrowsToSevenThousand ==
  \A r \in Counts :
    ReportsSteadily(r)
      => /\ rects.asked = <<RECT_BUF_LEN, min(r, RECT_BUF_LEN + RECT_BUF_MAX_LEN)>>
         /\ Len(rects.answers) = 2
         /\ rects.cap = min(r, RECT_BUF_LEN + RECT_BUF_MAX_LEN)
         /\ rects.returned = min(r, RECT_BUF_LEN + RECT_BUF_MAX_LEN)

\* 9000 moved rectangles reported twice: 7000 entries come back
C11_Witness ==
  /\ ReportsSteadily(9000)
  /\ rects.kind = "moved"
  /\ rects.cap = 7000
  /\ rects.returned = 7000

\* C12: a dirty() or moved() call in which a backend query failed returns an
\* empty sequence
C12_FailureReturnsEmpty ==
  (rects # NoRects /\ \E i \in 1..Len(rects.answers) : ~is_ok(rects.answers[i].hr))
    => rects.returned = 0

\* C15: every display the enumerator yields has right >= left and
\* bottom >= top, and its width() and height() are right - left and
\* bottom - top as non-negative numbers
Yielded == items # <<>> /\ items[Len(items)].kind = "Display"

C15_YieldedRectangleIsOrdered ==
  Yielded =>
    LET c == ddesc.DesktopCoordinates
    IN  /\ c.right >= c.left
        /\ c.bottom >= c.top
        /\ width(ddesc) = USize(NatDigits(c.right - c.left))
        /\ height(ddesc) = USize(NatDigits(c.bottom - c.top))

\* C18: a failing unmap or release at the start of get_frame with a frame
\* held never surfaces: the call still clears has_frame and issues the
\* acquire, and what it returns and leaves behind is what the same call
\* gives from the idle state, whatever the unmap and the release answered
Idle == [Self EXCEPT !.has_frame = FALSE]

ReleaseLen == IF desc.DesktopImageInSystemMemory THEN 2 ELSE 1

C18_Swallowed ==
  (has_frame /\ calls' = calls + 1) =>
    LET new == SubSeq(log', Len(log) + 1, Len(log'))
    IN  /\ Len(new) > ReleaseLen
        /\ \A i \in 1..ReleaseLen :
             new[i].call \in {"UnMapDesktopSurface", "ReleaseFrame"}
        /\ IsAcquire(new[ReleaseLen + 1])
        /\ \E in \in GetFrameInputs(Idle) :
             LET r == get_frame(Idle, profile, in)
             IN  /\ new = SubSeq(new, 1, ReleaseLen) \o r.calls
                 /\ result' = r.result
                 /\ frame' = r.frame
                 /\ has_frame' = r.self.has_frame
                 /\ rect' = r.self.rect

C18_ReleaseFailureNeverSurfaces == [][C18_Swallowed]_vars

C18_Witness ==
  /\ calls = 2
  /\ result.kind = "Frame"
  /\ Len(log) = 6
  /\ log[3] = Call("UnMapDesktopSurface", DXGI_ERROR_ACCESS_LOST)
  /\ log[4] = Call("ReleaseFrame", DXGI_ERROR_ACCESS_LOST)
  /\ log[5] = Call("AcquireNextFrame", S_OK)
  /\ log[6] = Call("MapDesktopSurface", S_OK)

\* C19: ReleaseFrame is issued once per successfully acquired frame, between
\* that acquire and the next one, and never while no frame is held (not
\* after a timeout or a failed acquire); UnMapDesktopSurface is issued only
\* in a session of CPU-mapped frames, there always right before the release
IsRelease(c) == c.call = "ReleaseFrame"
IsUnmap(c) == c.call = "UnMapDesktopSurface"
Acquired(c) == IsAcquire(c) /\ is_ok(c.hr)

\* the log entries strictly between an acquire at j and the next acquire at k
Between(j, k) == {i \in (j + 1)..(k - 1) : TRUE}
NextAcquire(j, k) ==
  /\ j < k
  /\ IsAcquire(log[j]) /\ IsAcquire(log[k])
  /\ \A i \in Between(j, k) : ~IsAcquire(log[i])

C19_ReleaseOncePerFrame ==
  /\ \A j, k \in 1..Len(log) :
       NextAcquire(j, k) =>
         LET released == {i \in Between(j, k) : IsRelease(log[i])}
             unmapped == {i \in Between(j, k) : IsUnmap(log[i])}
         IN  IF Acquired(log[j])
             THEN /\ Cardinality(released) = 1
                  /\ IsRelease(log[k - 1])
                  /\ (desc.DesktopImageInSystemMemory =>
                        unmapped = {k - 2})
                  /\ (~desc.DesktopImageInSystemMemory => unmapped = {})
             ELSE released = {} /\ unmapped = {}
  /\ \A i \in 1..Len(log) :
       (IsRelease(log[i]) \/ IsUnmap(log[i])) =>
         \E j \in 1..(i - 1) :
           /\ Acquired(log[j])
           /\ \A m \in (j + 1)..(i - 1) : ~IsAcquire(log[m]) /\ ~IsRelease(log[m])
  /\ (log # <<>> => ~IsRelease(log[1]) /\ ~IsUnmap(log[1]))
  /\ (log # <<>> => ~IsRelease(log[Len(log)]) /\ ~IsUnmap(log[Len(log)]))
  /\ (has_frame <=> \E j \in 1..Len(log) :
                       /\ Acquired(log[j])
                       /\ \A m \in (j + 1)..Len(log) : ~IsAcquire(log[m]))

C19_Witness ==
  /\ calls = 3
  /\ desc.DesktopImageInSystemMemory
  /\ Len(log) = 7
  /\ log[1] = Call("AcquireNextFrame", S_OK)
  /\ log[3] = Call("UnMapDesktopSurface", S_OK)
  /\ log[4] = Call("ReleaseFrame", S_OK)
  /\ log[5] = Timeout
  /\ log[6] = Call("AcquireNextFrame", S_OK)
  /\ has_frame

\* C20: when the acquire reports success but supplies no resource, get_frame
\* returns a fatal error and no frame, in a session of CPU-addressable
\* frames as in a session of GPU-resident ones
\* the last get_frame call returned, and its acquire succeeded without a resource
AcquiredWithoutResource ==
  /\ calls > 0
  /\ pc = "run"
  /\ \E j \in 1..Len(log) :
       /\ Acquired(log[j])
       /\ \A m \in (j + 1)..Len(log) : ~IsAcquire(log[m])
  /\ ~resource

C20_AbsentResourceIsFatal ==
  AcquiredWithoutResource =>
    /\ result.kind \in {"None", "Unexpected"}
    /\ frame = NoFrame

(***************************************************************************)
(* Properties of the display and its capturer.                             *)
(***************************************************************************)
\* C13: a display owns no capturer until its first frame() call; the
\* capturer is constructed at most once, and every later frame() call uses
\* that capturer: same session descriptor, no construction, and the calls
\* it issues start with the release of the held frame exactly when the
\* capturer was left holding one
OwnsAtMostOne ==
  /\ display.news <= 1
  /\ (display.frames = 0 => display.capturer = None)
  /\ (display.capturer # None <=> display.news = 1)
  /\ (display.capturer # None => display.capturer[1] = Self)

LaterFrameUsesSame ==
  (display.capturer # None /\ display'.frames = display.frames + 1) =>
    LET old   == display.capturer[1]
        first == log'[Len(log) + 1]
    IN  /\ display'.made = "none"
        /\ display'.news = display.news
        /\ display'.capturer # None
        /\ display'.capturer[1].desc = old.desc
        /\ Len(log') > Len(log)
        /\ (old.has_frame /\ old.desc.DesktopImageInSystemMemory
              => first.call = "UnMapDesktopSurface")
        /\ (old.has_frame /\ ~old.desc.DesktopImageInSystemMemory
              => first.call = "ReleaseFrame")
        /\ (~old.has_frame => IsAcquire(first))

C13_CapturerMadeOnce == []OwnsAtMostOne /\ [][LaterFrameUsesSame]_vars

C13_Witness ==
  /\ display.frames = 3
  /\ display.news = 1
  /\ display.made = "none"
  /\ display.result.kind = "Frame"
  /\ Len(log) = 4
  /\ log[1] = Timeout
  /\ log[2] = Call("AcquireNextFrame", S_OK)
  /\ log[3] = Call("ReleaseFrame", S_OK)

\* C14: a failed construction on the first frame() call is returned to the
\* caller as an error value: no panic, and the display is left without a
\* capturer so that a later frame() call constructs again
C14_ConstructionFailureIsReturned ==
  display.made = "failed" =>
    /\ pc = "run"
    /\ display.result.kind = "Dxgi"
    /\ display.capturer = None

\* C17: get_frame, and frame() through the conversion, report WouldBlock
\* exactly when the acquire of that call returned the wait-timeout status
AcquireTimedOut == log # <<>> /\ log[Len(log)] = Timeout

C17_WouldBlockIffTimeout ==
  (display.frames > 0 /\ display.made # "failed") =>
    /\ (result.kind = "WouldBlock" <=> AcquireTimedOut)
    /\ (display.result.kind = "WouldBlock" <=> AcquireTimedOut)
    /\ (display.result.kind = "Dxgi" =>
          /\ display.result.inner = result
          /\ result.kind \in {"Unexpected", "None"})

C17_Witness ==
  /\ display.frames = 2
  /\ display.result.kind = "WouldBlock"
  /\ Len(log) = 3
  /\ log[1] = Call("AcquireNextFrame", S_OK)
  /\ log[2] = Call("ReleaseFrame", DXGI_ERROR_ACCESS_LOST)
  /\ log[3] = Timeout

\* C16: in a polling loop against a backend that eventually has a frame
\* pending and reports no failure but timeouts, a get_frame call returns a
\* Frame: the call that follows the last timeout does
C16_PollingReachesFrame ==
  calls > arrival => result.kind = "Frame"

(***************************************************************************)
(* Properties of the GPU readback, the capturer values and the timeout.    *)
(***************************************************************************)
\* the staging textures of the live texture frame that were mapped by a
\* successful readback and not unmapped since
StagingMapped ==
  IF frame.kind = "DirectX" THEN gpu.okReads - gpu.unmaps ELSE 0

\* C21: every successful map of the staging resource is followed by an
\* unmap before as_bytes() returns: after any number of as_bytes() calls no
\* staging resource is left mapped
C21_StagingUnmapped == StagingMapped = 0

\* C23 as claimed: has_frame is true after a get_frame call that returned
\* only if that call returned a Frame
C23_ErrorLeavesIdle ==
  (calls > 0 /\ pc = "run" /\ has_frame) => result.kind = "Frame"

\* C23: has_frame is true after a get_frame call exactly when the acquire of
\* that call succeeded: false after WouldBlock and after a failed acquire,
\* true after a Frame and also after a failed surface map, a failed cast
\* and an absent resource, where the acquired frame is still held
FailedAfterAcquire ==
  \/ result.kind = "None"
  \/ /\ result.kind = "Unexpected"
     /\ log[Len(log)] # Call("AcquireNextFrame", result.hr)

C23_HeldIffAcquired ==
  calls > 0 =>
    /\ (result.kind = "WouldBlock" => ~has_frame /\ log[Len(log)] = Timeout)
    /\ (result.kind = "Unexpected" /\ ~FailedAfterAcquire => ~has_frame)
    /\ (FailedAfterAcquire => has_frame /\ held = 1)
    /\ (result.kind \in {"Frame", "Panic"} => has_frame)
    /\ (has_frame <=> result.kind \in {"Frame", "Panic"} \/ FailedAfterAcquire)

C23_Witness ==
  /\ calls = 1
  /\ pc = "run"
  /\ log = <<Call("AcquireNextFrame", S_OK),
             Call("MapDesktopSurface", DXGI_ERROR_ACCESS_LOST)>>
  /\ result = [kind |-> "Unexpected", hr |-> DXGI_ERROR_ACCESS_LOST]
  /\ has_frame

\* C24: in every dirty() or moved() call, whatever counts the backend
\* reports, the scratch buffer never exceeds 7000 entries and the backend
\* is queried at most twice
C24_BufferAndQueriesBounded ==
  rects # NoRects =>
    /\ rects.cap <= RECT_BUF_LEN + RECT_BUF_MAX_LEN
    /\ Len(rects.answers) <= 2
    /\ Len(rects.asked) = Len(rects.answers)
    /\ \A i \in 1..Len(rects.asked) :
         rects.asked[i] <= RECT_BUF_LEN + RECT_BUF_MAX_LEN
    /\ rects.returned <= rects.cap

C24_Witness ==
  /\ rects # NoRects
  /\ rects.kind = "dirty"
  /\ Len(rects.answers) = 2
  /\ rects.answers[1].count = Some(1000000)
  /\ rects.answers[2].count = Some(9000)
  /\ rects.asked = <<RECT_BUF_LEN, 7000>>
  /\ rects.cap = 7000
  /\ rects.returned = 7000

\* C25: the milliseconds get_frame passes to the acquire are the caller's
\* timeout in whole milliseconds, for every duration
C25_TimeoutPassedWhole ==
  wait # NoWait => U128(wait.passed) = wait.timeout

\* C22: a duplication session is driven by one capturer value, so the call
\* order holds per session: between one acquire of the session and its
\* next acquire there is a release exactly when the first one succeeded
C22_SessionCallOrder ==
  \A j, k \in 1..Len(log) :
    NextAcquire(j, k) =>
      (Acquired(log[j]) <=> \E i \in Between(j, k) : IsRelease(log[i]))

(***************************************************************************)
(* Properties of the enumerator after its end, and of its recursion.       *)
(***************************************************************************)
\* the last next() call ended at an adapter ordinal the backend did not find
EndedAtNotFound ==
  /\ items # <<>>
  /\ items[Len(items)] = NoneItem
  /\ elog # <<>>
  /\ elog[Len(elog)].call = "EnumAdapters1"
  /\ elog[Len(elog)].hr = DXGI_ERROR_NOT_FOUND

\* C26: once next() has returned None past the last adapter, every later
\* next() the backend answers by the same topology returns None too and
\* leaves the adapter and output ordinals as they were
C26_Fused ==
  (EndedAtNotFound /\ Len(items') = Len(items) + 1 /\ faults' = faults) =>
    /\ items'[Len(items')] = NoneItem
    /\ displays' = displays
    /\ elog' = <<ECall("EnumAdapters1", displays.adapter_idx, DXGI_ERROR_NOT_FOUND)>>

C26_FusedAfterNone == [][C26_Fused]_vars

C26_Witness ==
  /\ topo = <<1, 0>>
  /\ faults = 0
  /\ items = <<Display(0, 0), NoneItem, NoneItem, NoneItem>>
  /\ displays.adapter_idx = 2
  /\ displays.display_idx = 0

\* C27: the advance to the next adapter does not nest: every next() call
\* returns from the outermost next_display invocation, however many
\* adapters in a row have no outputs
C27_AdvanceDoesNotNest == depth = 0

====
